---- MODULE Spec2Model ----
(***************************************************************************)
(* Session scheduling of event-schedulr (convex/schedule.ts): the session  *)
(* table, the creation / update / delete mutations over it, the overlap    *)
(* validation they run and the slot suggestion computed on a conflict.     *)
(* Every mutation is one atomic step (a Convex mutation is a transaction). *)
(* Time is counted in hours: a timestamp t stands for t hours after        *)
(* midnight of day 0.                                                      *)
(*                                                                         *)
(* Spec           the mutations over the session table, each atomic        *)
(* LifecycleSpec  the same table with every persisted status in use        *)
(* SlotSpec       findNextAvailableSlot called on its own                  *)
(* RaceSpec       two creation calls with query and insert interleaved     *)
(* QuerySpec      the read queries between mutations as the clock runs     *)
(***************************************************************************)
EXTENDS Integers, Sequences, FiniteSets, TLC

VARIABLES
  store,    \* the sessions table, in insertion order
  nextId,   \* the id the next inserted session gets (ids are never reused)
  now,      \* Date.now()
  slotCall, \* a call of findNextAvailableSlot taken on its own: its
            \* arguments and what it returned (<<>> when there is none)
  inflight  \* creation calls that have validated against the sessions they
            \* read and have not inserted yet (<<>> when calls are atomic)

vars == <<store, nextId, now, slotCall, inflight>>

(* ------------------------------ bounds -------------------------------- *)
\* timestamps range over 0..MaxTime
MaxTime == 3
\* at most MaxIds sessions are ever inserted
MaxIds == 2
\* a batch holds at most MaxBatch candidates
MaxBatch == 3
\* a candidate of a batch lasts 0..MaxDur
MaxDur == 1
\* findNextAvailableSlot on its own: at most MaxExisting existing sessions,
\* a session duration of 0..MaxSlotDur
MaxExisting == 4
MaxSlotDur == 2

Times == 0..MaxTime

\* an optional argument that is not provided
Absent == -1

(* ------------------------- tables and values -------------------------- *)
\* the events table as the scheduling code reads it: startsAt / endsAt
events ==
  [e1 |-> [startsAt |-> 0, endsAt |-> 2],
   e2 |-> [startsAt |-> 1, endsAt |-> 2]]

\* the event ids a caller may pass; "e0" is not in the events table
EventIds == {"e0", "e1", "e2"}

\* the persisted lifecycle statuses
Statuses == {"postponed", "upcoming", "ongoing", "completed", "cancelled"}

\* the titles and the statuses the calls of Next pass
Titles == {"A", "B"}

StatusInputs == {"upcoming"}

\* the suggestion of an error that carries none
NoSuggestion == [branch |-> "none", from |-> <<>>, to |-> <<>>, booked |-> <<>>]

(* --------------------------- pure helpers ----------------------------- *)
\* toLocaleTimeString("en-US", {hour: "numeric", minute: "2-digit", hour12})
\* keeps the time of day only: the date is dropped
formatTimeForError(timestamp) ==
  LET h24 == timestamp % 24
      h12 == IF h24 % 12 = 0 THEN 12 ELSE h24 % 12
  IN  <<h12, 0, IF h24 < 12 THEN "AM" ELSE "PM">>

\* an overlap test that counts touching endpoints as a conflict
Overlaps_Closed(a, b) ==
  a.startTime <= b.endTime /\ a.endTime >= b.startTime

\* the strict overlap test of a candidate against a stored session
Overlaps(a, b) ==
  a.startTime < b.endTime /\ a.endTime > b.startTime

\* no sort at all: the sessions in the order supplied
SortByStart_Unsorted(seq) == seq

\* a sort with the comparator turned round: latest start first
RECURSIVE SortByStart_Descending(_)
SortByStart_Descending(seq) ==
  IF seq = <<>> THEN <<>>
  ELSE LET first == CHOOSE i \in 1..Len(seq) :
                      \A k \in 1..Len(seq) :
                        \/ seq[i].startTime > seq[k].startTime
                        \/ seq[i].startTime = seq[k].startTime /\ i <= k
           rest == [k \in 1..(Len(seq) - 1) |->
                      IF k < first THEN seq[k] ELSE seq[k + 1]]
       IN  <<seq[first]>> \o SortByStart_Descending(rest)

RECURSIVE InsertByStart(_, _)
InsertByStart(s, sorted) ==
  IF sorted = <<>> THEN <<s>>
  ELSE IF s.startTime < Head(sorted).startTime THEN <<s>> \o sorted
  ELSE <<Head(sorted)>> \o InsertByStart(s, Tail(sorted))

\* [...existingSessions].sort((a, b) => a.startTime - b.startTime): stable
RECURSIVE SortByStart(_)
SortByStart(seq) ==
  IF seq = <<>> THEN <<>>
  ELSE InsertByStart(seq[Len(seq)], SortByStart(SubSeq(seq, 1, Len(seq) - 1)))

\* a sort in place: the caller's array comes back sorted
existingSessionsAfterSort_InPlace(existingSessions) ==
  SortByStart(existingSessions)

\* [...existingSessions].sort(...) sorts a copy: what the caller's array
\* holds once findNextAvailableSlot has returned
existingSessionsAfterSort(existingSessions) == existingSessions

\* a query that forgets the by_event index: the sessions of every event
SessionsOfEvent_AllEvents(st, eventId) == st

\* ctx.db.query("sessions").withIndex("by_event", eq eventId).collect()
SessionsOfEvent(st, eventId) ==
  SelectSeq(st, LAMBDA s : s.eventId = eventId)

\* a probe that lets every session block the slot after the conflict, those
\* starting with the conflicting session included
findNextAvailableSlot_ProbeEverySession(sessionDuration, existingSessions, eventEndsAt, conflictingSession) ==
  LET sortedSessions == SortByStart(existingSessions)
      n == Len(sortedSessions)
      afterConflict == conflictingSession.endTime
      hasConflict ==
        \E i \in 1..n :
          /\ sortedSessions[i].startTime < afterConflict + sessionDuration
          /\ sortedSessions[i].endTime > afterConflict
      fits(i) ==
        sortedSessions[i + 1].startTime - sortedSessions[i].endTime
          >= sessionDuration
      gaps == {i \in 1..(n - 1) : fits(i)}
      firstGap == CHOOSE i \in gaps : \A k \in gaps : i <= k
      gapStart == sortedSessions[firstGap].endTime
      slotText(s) ==
        <<formatTimeForError(s.startTime), formatTimeForError(s.endTime)>>
      bookedSlots ==
        [i \in 1..(IF n < 3 THEN n ELSE 3) |-> slotText(sortedSessions[i])]
  IN  IF afterConflict + sessionDuration <= eventEndsAt /\ ~hasConflict
        THEN [branch |-> "after", from |-> formatTimeForError(afterConflict),
              to |-> <<>>, booked |-> <<>>]
      ELSE IF gaps # {}
        THEN [branch |-> "gap", from |-> formatTimeForError(gapStart),
              to |-> formatTimeForError(gapStart + sessionDuration),
              booked |-> <<>>]
      ELSE IF n > 0 /\ sortedSessions[n].endTime + sessionDuration
                         <= eventEndsAt
        THEN [branch |-> "tail",
              from |-> formatTimeForError(sortedSessions[n].endTime),
              to |-> <<>>, booked |-> <<>>]
      ELSE IF n > 0
        THEN [branch |-> "booked", from |-> <<>>, to |-> <<>>,
              booked |-> bookedSlots]
      ELSE [branch |-> "generic", from |-> <<>>, to |-> <<>>,
            booked |-> <<>>]

\* a fallback that lists every existing session
findNextAvailableSlot_BookedAll(sessionDuration, existingSessions, eventEndsAt, conflictingSession) ==
  LET sortedSessions == SortByStart(existingSessions)
      n == Len(sortedSessions)
      afterConflict == conflictingSession.endTime
      hasConflict ==
        \E i \in 1..n :
          /\ sortedSessions[i].startTime < afterConflict + sessionDuration
          /\ sortedSessions[i].endTime > afterConflict
          /\ sortedSessions[i].startTime # conflictingSession.startTime
      fits(i) ==
        sortedSessions[i + 1].startTime - sortedSessions[i].endTime
          >= sessionDuration
      gaps == {i \in 1..(n - 1) : fits(i)}
      firstGap == CHOOSE i \in gaps : \A k \in gaps : i <= k
      gapStart == sortedSessions[firstGap].endTime
      slotText(s) ==
        <<formatTimeForError(s.startTime), formatTimeForError(s.endTime)>>
      bookedSlots ==
        [i \in 1..n |-> slotText(sortedSessions[i])]
  IN  IF afterConflict + sessionDuration <= eventEndsAt /\ ~hasConflict
        THEN [branch |-> "after", from |-> formatTimeForError(afterConflict),
              to |-> <<>>, booked |-> <<>>]
      ELSE IF gaps # {}
        THEN [branch |-> "gap", from |-> formatTimeForError(gapStart),
              to |-> formatTimeForError(gapStart + sessionDuration),
              booked |-> <<>>]
      ELSE IF n > 0 /\ sortedSessions[n].endTime + sessionDuration
                         <= eventEndsAt
        THEN [branch |-> "tail",
              from |-> formatTimeForError(sortedSessions[n].endTime),
              to |-> <<>>, booked |-> <<>>]
      ELSE IF n > 0
        THEN [branch |-> "booked", from |-> <<>>, to |-> <<>>,
              booked |-> bookedSlots]
      ELSE [branch |-> "generic", from |-> <<>>, to |-> <<>>,
            booked |-> <<>>]

\* a slot search that accepts the slot after the conflicting session as
\* soon as it ends by the end of the event
findNextAvailableSlot_ProbeEndOnly(sessionDuration, existingSessions, eventEndsAt, conflictingSession) ==
  LET sortedSessions == SortByStart(existingSessions)
      n == Len(sortedSessions)
      afterConflict == conflictingSession.endTime
      fits(i) ==
        sortedSessions[i + 1].startTime - sortedSessions[i].endTime
          >= sessionDuration
      gaps == {i \in 1..(n - 1) : fits(i)}
      firstGap == CHOOSE i \in gaps : \A k \in gaps : i <= k
      gapStart == sortedSessions[firstGap].endTime
      slotText(s) ==
        <<formatTimeForError(s.startTime), formatTimeForError(s.endTime)>>
      bookedSlots ==
        [i \in 1..(IF n < 3 THEN n ELSE 3) |-> slotText(sortedSessions[i])]
  IN  IF afterConflict + sessionDuration <= eventEndsAt
        THEN [branch |-> "after", from |-> formatTimeForError(afterConflict),
              to |-> <<>>, booked |-> <<>>]
      ELSE IF gaps # {}
        THEN [branch |-> "gap", from |-> formatTimeForError(gapStart),
              to |-> formatTimeForError(gapStart + sessionDuration),
              booked |-> <<>>]
      ELSE IF n > 0 /\ sortedSessions[n].endTime + sessionDuration
                         <= eventEndsAt
        THEN [branch |-> "tail",
              from |-> formatTimeForError(sortedSessions[n].endTime),
              to |-> <<>>, booked |-> <<>>]
      ELSE IF n > 0
        THEN [branch |-> "booked", from |-> <<>>, to |-> <<>>,
              booked |-> bookedSlots]
      ELSE [branch |-> "generic", from |-> <<>>, to |-> <<>>,
            booked |-> <<>>]

\* the slot suggested after a conflict; branch names the return statement
\* taken, from / to / booked are the formatted times put in the message
findNextAvailableSlot(sessionDuration, existingSessions, eventEndsAt, conflictingSession) ==
  LET sortedSessions == SortByStart(existingSessions)
      n == Len(sortedSessions)
      afterConflict == conflictingSession.endTime
      hasConflict ==
        \E i \in 1..n :
          /\ sortedSessions[i].startTime < afterConflict + sessionDuration
          /\ sortedSessions[i].endTime > afterConflict
          /\ sortedSessions[i].startTime # conflictingSession.startTime
      fits(i) ==
        sortedSessions[i + 1].startTime - sortedSessions[i].endTime
          >= sessionDuration
      gaps == {i \in 1..(n - 1) : fits(i)}
      firstGap == CHOOSE i \in gaps : \A k \in gaps : i <= k
      gapStart == sortedSessions[firstGap].endTime
      slotText(s) ==
        <<formatTimeForError(s.startTime), formatTimeForError(s.endTime)>>
      bookedSlots ==
        [i \in 1..(IF n < 3 THEN n ELSE 3) |-> slotText(sortedSessions[i])]
  IN  IF afterConflict + sessionDuration <= eventEndsAt /\ ~hasConflict
        THEN [branch |-> "after", from |-> formatTimeForError(afterConflict),
              to |-> <<>>, booked |-> <<>>]
      ELSE IF gaps # {}
        THEN [branch |-> "gap", from |-> formatTimeForError(gapStart),
              to |-> formatTimeForError(gapStart + sessionDuration),
              booked |-> <<>>]
      ELSE IF n > 0 /\ sortedSessions[n].endTime + sessionDuration
                         <= eventEndsAt
        THEN [branch |-> "tail",
              from |-> formatTimeForError(sortedSessions[n].endTime),
              to |-> <<>>, booked |-> <<>>]
      ELSE IF n > 0
        THEN [branch |-> "booked", from |-> <<>>, to |-> <<>>,
              booked |-> bookedSlots]
      ELSE [branch |-> "generic", from |-> <<>>, to |-> <<>>,
            booked |-> <<>>]

(* ------------------------- creation handlers -------------------------- *)
\* the overlapping session that starts earliest, not the first one supplied
FirstOverlap_Earliest(cand, existingSessions) ==
  LET hit == {i \in 1..Len(existingSessions) :
                cand.startTime < existingSessions[i].endTime
                  /\ cand.endTime > existingSessions[i].startTime}
  IN  IF hit = {} THEN 0
      ELSE CHOOSE i \in hit :
             \A k \in hit :
               \/ existingSessions[i].startTime
                    < existingSessions[k].startTime
               \/ /\ existingSessions[i].startTime
                      = existingSessions[k].startTime
                  /\ i <= k

\* index of the first session of existingSessions, in the order given, that
\* the candidate strictly overlaps; 0 when there is none
FirstOverlap(cand, existingSessions) ==
  LET hit == {i \in 1..Len(existingSessions) :
                Overlaps(cand, existingSessions[i])}
  IN  IF hit = {} THEN 0 ELSE CHOOSE i \in hit : \A k \in hit : i <= k

\* a conflict report that searches a free slot among the sessions other
\* than the blocking one
ConflictWith_OthersOnly(cand, existingSessions, event, i) ==
  [kind |-> "OverlapWithExisting", title |-> cand.title, other |-> "",
   blocking |-> existingSessions[i].id,
   suggestion |-> findNextAvailableSlot(cand.endTime - cand.startTime,
                                        SelectSeq(existingSessions,
                                                  LAMBDA s : s.id # existingSessions[i].id),
                                        event.endsAt,
                                        existingSessions[i])]

\* the error thrown on an overlap with a stored session; the message names
\* the session by title and times, here by its id
ConflictWith(cand, existingSessions, event, i) ==
  [kind |-> "OverlapWithExisting", title |-> cand.title, other |-> "",
   blocking |-> existingSessions[i].id,
   suggestion |-> findNextAvailableSlot(cand.endTime - cand.startTime,
                                        existingSessions, event.endsAt,
                                        existingSessions[i])]

Failure(kind, title) ==
  [kind |-> kind, title |-> title, other |-> "", blocking |-> 0,
   suggestion |-> NoSuggestion]

Passed == Failure("ok", "")

\* the same checks with the time range tested first
CheckCandidate_RangeFirst(cand, existingSessions, event) ==
  IF cand.startTime >= cand.endTime
    THEN [kind |-> "InvalidRange", title |-> cand.title, other |-> "",
          blocking |-> 0, suggestion |-> NoSuggestion]
  ELSE IF cand.startTime < event.startsAt
    THEN [kind |-> "BeforeEventStart", title |-> cand.title, other |-> "",
          blocking |-> 0, suggestion |-> NoSuggestion]
  ELSE IF cand.endTime > event.endsAt
    THEN [kind |-> "AfterEventEnd", title |-> cand.title, other |-> "",
          blocking |-> 0, suggestion |-> NoSuggestion]
  ELSE IF \E i \in 1..Len(existingSessions) :
            cand.startTime < existingSessions[i].endTime
              /\ cand.endTime > existingSessions[i].startTime
    THEN ConflictWith(cand, existingSessions, event,
                      FirstOverlap(cand, existingSessions))
  ELSE Passed

\* the checks createMultipleSessions runs on one candidate of the batch
CheckCandidate(cand, existingSessions, event) ==
  IF cand.startTime < event.startsAt
    THEN Failure("BeforeEventStart", cand.title)
  ELSE IF cand.endTime > event.endsAt
    THEN Failure("AfterEventEnd", cand.title)
  ELSE IF cand.startTime >= cand.endTime
    THEN Failure("InvalidRange", cand.title)
  ELSE IF \E i \in 1..Len(existingSessions) :
            Overlaps(cand, existingSessions[i])
    THEN ConflictWith(cand, existingSessions, event,
                      FirstOverlap(cand, existingSessions))
  ELSE Passed

\* first loop of createMultipleSessions: every candidate against the store;
\* 0 when every candidate passes, else the index of the first that throws
FirstRejected(cands, existingSessions, event) ==
  LET bad == {i \in 1..Len(cands) :
                CheckCandidate(cands[i], existingSessions, event).kind # "ok"}
  IN  IF bad = {} THEN 0 ELSE CHOOSE i \in bad : \A k \in bad : i <= k

\* a second loop that compares neighbouring candidates only
CheckWithinBatch_Neighbours(cands) ==
  IF \E i \in 1..(Len(cands) - 1) : Overlaps(cands[i], cands[i + 1])
    THEN [kind |-> "OverlapWithinBatch", title |-> "", other |-> "",
          blocking |-> 0, suggestion |-> NoSuggestion]
  ELSE Passed

\* a second loop that keeps going and reports the last overlapping pair
CheckWithinBatch_LastPair(cands) ==
  LET n == Len(cands)
      hits(i) == {j \in (i + 1)..n : Overlaps(cands[i], cands[j])}
      rows == {i \in 1..n : hits(i) # {}}
      a == CHOOSE i \in rows : \A k \in rows : k <= i
      b == CHOOSE j \in hits(a) : \A k \in hits(a) : k <= j
  IN  IF rows = {} THEN Passed
      ELSE [kind |-> "OverlapWithinBatch", title |-> cands[a].title,
            other |-> cands[b].title, blocking |-> 0,
            suggestion |-> NoSuggestion]

\* second loop: candidate pairs (i, j), i < j, in lexicographic order
CheckWithinBatch(cands) ==
  LET n == Len(cands)
      hits(i) == {j \in (i + 1)..n : Overlaps(cands[i], cands[j])}
      rows == {i \in 1..n : hits(i) # {}}
      a == CHOOSE i \in rows : \A k \in rows : i <= k
      b == CHOOSE j \in hits(a) : \A k \in hits(a) : j <= k
  IN  IF rows = {} THEN Passed
      ELSE [kind |-> "OverlapWithinBatch", title |-> cands[a].title,
            other |-> cands[b].title, blocking |-> 0,
            suggestion |-> NoSuggestion]

\* a validation that compares the candidates with one another first
ValidateBatch_PairsFirst(st, clock, eventId, cands) ==
  IF eventId \notin DOMAIN events THEN Failure("EventNotFound", "")
  ELSE IF clock > events[eventId].endsAt
    THEN Failure("EventAlreadyEnded", "")
  ELSE IF Len(cands) = 0 THEN Failure("EmptyBatch", "")
  ELSE IF CheckWithinBatch(cands).kind # "ok" THEN CheckWithinBatch(cands)
  ELSE LET existingSessions == SessionsOfEvent(st, eventId)
           k == FirstRejected(cands, existingSessions, events[eventId])
       IN  IF k # 0
             THEN CheckCandidate(cands[k], existingSessions, events[eventId])
           ELSE Passed

\* a validation without the length check: an empty batch passes
ValidateBatch_EmptyAccepted(st, clock, eventId, cands) ==
  IF eventId \notin DOMAIN events THEN Failure("EventNotFound", "")
  ELSE IF clock > events[eventId].endsAt
    THEN Failure("EventAlreadyEnded", "")
  ELSE LET existingSessions == SessionsOfEvent(st, eventId)
           k == FirstRejected(cands, existingSessions, events[eventId])
       IN  IF k # 0
             THEN CheckCandidate(cands[k], existingSessions, events[eventId])
           ELSE CheckWithinBatch(cands)

\* a batch validation that closes the event at the instant it ends
ValidateBatch_ClosedAtEnd(st, clock, eventId, cands) ==
  IF eventId \notin DOMAIN events THEN Failure("EventNotFound", "")
  ELSE IF clock >= events[eventId].endsAt
    THEN Failure("EventAlreadyEnded", "")
  ELSE IF Len(cands) = 0 THEN Failure("EmptyBatch", "")
  ELSE LET existingSessions == SessionsOfEvent(st, eventId)
           k == FirstRejected(cands, existingSessions, events[eventId])
       IN  IF k # 0
             THEN CheckCandidate(cands[k], existingSessions, events[eventId])
           ELSE CheckWithinBatch(cands)

\* validation of createMultipleSessions, up to the first insert
ValidateBatch(st, clock, eventId, cands) ==
  IF eventId \notin DOMAIN events THEN Failure("EventNotFound", "")
  ELSE IF clock > events[eventId].endsAt
    THEN Failure("EventAlreadyEnded", "")
  ELSE IF Len(cands) = 0 THEN Failure("EmptyBatch", "")
  ELSE LET existingSessions == SessionsOfEvent(st, eventId)
           k == FirstRejected(cands, existingSessions, events[eventId])
       IN  IF k # 0
             THEN CheckCandidate(cands[k], existingSessions, events[eventId])
           ELSE CheckWithinBatch(cands)

\* a validation that also turns down a candidate starting in the past
ValidateSingle_NotInThePast(st, clock, eventId, cand) ==
  IF eventId \notin DOMAIN events THEN Failure("EventNotFound", "")
  ELSE IF clock > events[eventId].endsAt
    THEN Failure("EventAlreadyEnded", "")
  ELSE IF cand.startTime < clock THEN Failure("InvalidRange", cand.title)
  ELSE LET existingSessions == SessionsOfEvent(st, eventId)
           i == FirstOverlap(cand, existingSessions)
       IN  IF \E k \in 1..Len(existingSessions) :
                 Overlaps(cand, existingSessions[k])
             THEN ConflictWith(cand, existingSessions, events[eventId], i)
           ELSE Passed

\* a validation of createSession without the overlap loop
ValidateSingle_NoOverlapLoop(st, clock, eventId, cand) ==
  IF eventId \notin DOMAIN events THEN Failure("EventNotFound", "")
  ELSE IF clock > events[eventId].endsAt
    THEN Failure("EventAlreadyEnded", "")
  ELSE Passed

\* validation of createSession, up to the insert
ValidateSingle(st, clock, eventId, cand) ==
  IF eventId \notin DOMAIN events THEN Failure("EventNotFound", "")
  ELSE IF clock > events[eventId].endsAt
    THEN Failure("EventAlreadyEnded", "")
  ELSE LET existingSessions == SessionsOfEvent(st, eventId)
           i == FirstOverlap(cand, existingSessions)
       IN  IF \E k \in 1..Len(existingSessions) :
                 Overlaps(cand, existingSessions[k])
             THEN ConflictWith(cand, existingSessions, events[eventId], i)
           ELSE Passed

\* an insert that files every new session under the first event
Inserted_UnderFirstEvent(eventId, cands, firstId) ==
  [i \in 1..Len(cands) |->
     [id |-> firstId + i - 1, eventId |-> "e1",
      startTime |-> cands[i].startTime, endTime |-> cands[i].endTime,
      status |-> cands[i].status]]

\* ctx.db.insert("sessions", {...}) for the candidates, in input order; the
\* title is payload no check reads back: a stored session is named by its id
Inserted(eventId, cands, firstId) ==
  [i \in 1..Len(cands) |->
     [id |-> firstId + i - 1, eventId |-> eventId,
      startTime |-> cands[i].startTime, endTime |-> cands[i].endTime,
      status |-> cands[i].status]]

Outcome(r, st, nid, created) ==
  [kind |-> r.kind, title |-> r.title, other |-> r.other,
   blocking |-> r.blocking, suggestion |-> r.suggestion,
   store |-> st, nextId |-> nid, created |-> created]

\* the createSession handler: what it returns or throws, and the table after
createSession(st, nid, clock, eventId, cand) ==
  LET r == ValidateSingle(st, clock, eventId, cand)
  IN  IF r.kind = "ok"
        THEN Outcome(Passed, st \o Inserted(eventId, <<cand>>, nid), nid + 1,
                     <<nid>>)
      ELSE Outcome(r, st, nid, <<>>)

\* a handler that inserts each candidate as soon as it has passed the checks
\* against the store, so that a later conflict leaves the first one behind
createMultipleSessions_InsertEarly(st, nid, clock, eventId, cands) ==
  LET r == ValidateBatch(st, clock, eventId, cands)
  IN  IF r.kind = "ok"
        THEN Outcome(Passed, st \o Inserted(eventId, cands, nid),
                     nid + Len(cands),
                     [i \in 1..Len(cands) |-> nid + i - 1])
      ELSE IF r.kind = "OverlapWithinBatch"
        THEN Outcome(r, st \o Inserted(eventId, SubSeq(cands, 1, 1), nid),
                     nid + 1, <<>>)
      ELSE Outcome(r, st, nid, <<>>)

\* the createMultipleSessions handler
createMultipleSessions(st, nid, clock, eventId, cands) ==
  LET r == ValidateBatch(st, clock, eventId, cands)
  IN  IF r.kind = "ok"
        THEN Outcome(Passed, st \o Inserted(eventId, cands, nid),
                     nid + Len(cands),
                     [i \in 1..Len(cands) |-> nid + i - 1])
      ELSE Outcome(r, st, nid, <<>>)

Ids(st) == {st[i].id : i \in 1..Len(st)}

\* ctx.db.patch(sessionId, updates): only the fields provided are replaced;
\* status is a required argument of updateSession
Patch(s, startTime, endTime, status) ==
  [s EXCEPT !.startTime = IF startTime = Absent THEN @ ELSE startTime,
            !.endTime = IF endTime = Absent THEN @ ELSE endTime,
            !.status = status]

\* an update that creates the session when the id is unknown
updateSession_Upsert(st, sessionId, startTime, endTime, status) ==
  IF sessionId \notin Ids(st)
    THEN [kind |-> "ok",
          store |-> Append(st, [id |-> sessionId, eventId |-> "e1",
                                startTime |-> startTime, endTime |-> endTime,
                                status |-> status])]
  ELSE [kind |-> "ok",
        store |-> [i \in 1..Len(st) |->
                     IF st[i].id = sessionId
                       THEN Patch(st[i], startTime, endTime, status)
                     ELSE st[i]]]

updateSession(st, sessionId, startTime, endTime, status) ==
  IF sessionId \notin Ids(st) THEN [kind |-> "SessionNotFound", store |-> st]
  ELSE [kind |-> "ok",
        store |-> [i \in 1..Len(st) |->
                     IF st[i].id = sessionId
                       THEN Patch(st[i], startTime, endTime, status)
                     ELSE st[i]]]

\* a status update that treats completed and cancelled as final
updateSessionStatus_FinalStatuses(st, sessionId, status) ==
  IF sessionId \notin Ids(st) THEN [kind |-> "SessionNotFound", store |-> st]
  ELSE IF \E i \in 1..Len(st) :
            /\ st[i].id = sessionId
            /\ st[i].status \in {"completed", "cancelled"}
    THEN [kind |-> "InvalidTransition", store |-> st]
  ELSE [kind |-> "ok",
        store |-> [i \in 1..Len(st) |->
                     IF st[i].id = sessionId
                       THEN [st[i] EXCEPT !.status = status]
                     ELSE st[i]]]

updateSessionStatus(st, sessionId, status) ==
  IF sessionId \notin Ids(st) THEN [kind |-> "SessionNotFound", store |-> st]
  ELSE [kind |-> "ok",
        store |-> [i \in 1..Len(st) |->
                     IF st[i].id = sessionId
                       THEN [st[i] EXCEPT !.status = status]
                     ELSE st[i]]]

\* a delete that keeps the row and marks the session cancelled
deleteSession_MarksCancelled(st, sessionId) ==
  IF sessionId \notin Ids(st) THEN [kind |-> "SessionNotFound", store |-> st]
  ELSE [kind |-> "ok",
        store |-> [i \in 1..Len(st) |->
                     IF st[i].id = sessionId
                       THEN [st[i] EXCEPT !.status = "cancelled"]
                     ELSE st[i]]]

deleteSession(st, sessionId) ==
  IF sessionId \notin Ids(st) THEN [kind |-> "SessionNotFound", store |-> st]
  ELSE [kind |-> "ok", store |-> SelectSeq(st, LAMBDA s : s.id # sessionId)]

(* ------------------------------ queries ------------------------------- *)
\* a query returns a value and has no write access to the database; the
\* result is paired with the store the call leaves behind
null == <<>>

\* the getSessionsByEvent handler: the sessions of the event, earliest first
getSessionsByEvent(st, eventId) ==
  [result |-> SortByStart(SessionsOfEvent(st, eventId)), store |-> st]

\* the getCurrentAndUpcomingSessions handler: no look at the event itself
getCurrentAndUpcomingSessions(st, clock, eventId) ==
  LET sessions == SessionsOfEvent(st, eventId)
      releventSession ==
        SelectSeq(sessions,
                  LAMBDA session :
                    \/ session.startTime <= clock /\ session.endTime >= clock
                    \/ session.startTime > clock)
  IN  [result |-> SortByStart(releventSession), store |-> st]

\* currentSessions.sort((a, b) => b.startTime - a.startTime)[0]: the latest
\* start, and of several with that start the one the index returns first
LatestStart(currentSessions) ==
  LET latest(i) ==
        \A k \in 1..Len(currentSessions) :
            \/ currentSessions[i].startTime > currentSessions[k].startTime
            \/ /\ currentSessions[i].startTime = currentSessions[k].startTime
               /\ i <= k
  IN  currentSessions[CHOOSE i \in 1..Len(currentSessions) : latest(i)]

\* a getCurrentSession that writes the derived status back to the session
getCurrentSession_StoresOngoing(st, clock, eventId) ==
  IF eventId \notin DOMAIN events \/ clock > events[eventId].endsAt
    THEN [result |-> null, store |-> st]
  ELSE LET sessions == SessionsOfEvent(st, eventId)
           currentSessions ==
             SelectSeq(sessions,
                       LAMBDA session :
                         session.startTime <= clock /\ session.endTime >= clock)
       IN  IF Len(currentSessions) = 0 THEN [result |-> null, store |-> st]
           ELSE [result |-> <<LatestStart(currentSessions)>>,
                 store |-> [i \in 1..Len(st) |->
                              IF st[i].id = LatestStart(currentSessions).id
                                THEN [st[i] EXCEPT !.status = "ongoing"]
                              ELSE st[i]]]

\* the getCurrentSession handler
getCurrentSession(st, clock, eventId) ==
  IF eventId \notin DOMAIN events \/ clock > events[eventId].endsAt
    THEN [result |-> null, store |-> st]
  ELSE LET sessions == SessionsOfEvent(st, eventId)
           currentSessions ==
             SelectSeq(sessions,
                       LAMBDA session :
                         session.startTime <= clock /\ session.endTime >= clock)
       IN  IF Len(currentSessions) = 0 THEN [result |-> null, store |-> st]
           ELSE [result |-> <<LatestStart(currentSessions)>>, store |-> st]

\* a getNextUpcomingSession that skips the sessions not persisted as upcoming
getNextUpcomingSession_ByStatus(st, clock, eventId) ==
  IF eventId \notin DOMAIN events \/ clock > events[eventId].endsAt
    THEN [result |-> null, store |-> st]
  ELSE LET sessions == SessionsOfEvent(st, eventId)
           upcoming ==
             SortByStart(SelectSeq(sessions,
                                   LAMBDA session :
                                     /\ session.startTime > clock
                                     /\ session.status = "upcoming"))
       IN  [result |-> IF Len(upcoming) = 0 THEN null ELSE <<upcoming[1]>>,
            store |-> st]

\* the getNextUpcomingSession handler: upcoming[0] || null
getNextUpcomingSession(st, clock, eventId) ==
  IF eventId \notin DOMAIN events \/ clock > events[eventId].endsAt
    THEN [result |-> null, store |-> st]
  ELSE LET sessions == SessionsOfEvent(st, eventId)
           upcoming ==
             SortByStart(SelectSeq(sessions,
                                   LAMBDA session : session.startTime > clock))
       IN  [result |-> IF Len(upcoming) = 0 THEN null ELSE <<upcoming[1]>>,
            store |-> st]


(* ----------------------------- inputs --------------------------------- *)
Slots == Times \X Times

Candidate(title, slot, status) ==
  [title |-> title, startTime |-> slot[1], endTime |-> slot[2],
   status |-> status]

Candidates ==
  {Candidate(t, sl, st) : t \in Titles, sl \in Slots, st \in StatusInputs}

\* batches: the i-th candidate is titled by its position, lasts at most MaxDur
BatchTitle(i) == <<"A", "B", "C", "D", "E">>[i]

BatchSlots == {sl \in Slots : sl[2] - sl[1] \in 0..MaxDur}

Batches ==
  UNION {{[i \in 1..n |-> Candidate(BatchTitle(i), f[i], "upcoming")] :
            f \in [1..n -> BatchSlots]} : n \in 0..MaxBatch}

SessionIds == 1..(MaxIds + 1)

(* ------------------------------ state --------------------------------- *)
\* the clock starts at the last instant at which every event still takes
\* sessions and runs until every event has ended
EventEnds == {events[e].endsAt : e \in DOMAIN events}

FirstEnd == CHOOSE t \in EventEnds : \A u \in EventEnds : t <= u

LastEnd == CHOOSE t \in EventEnds : \A u \in EventEnds : u <= t

Init ==
  /\ store = <<>>
  /\ nextId = 1
  /\ now = FirstEnd
  /\ slotCall = <<>>
  /\ inflight = <<>>

(* ----------------------------- actions -------------------------------- *)
CreateSession(eventId, cand) ==
  \E o \in {createSession(store, nextId, now, eventId, cand)} :
      /\ o.nextId <= MaxIds + 1
      /\ store' = o.store
      /\ nextId' = o.nextId
      /\ UNCHANGED <<now, slotCall, inflight>>

CreateMultipleSessions(eventId, cands) ==
  \E o \in {createMultipleSessions(store, nextId, now, eventId, cands)} :
      /\ o.nextId <= MaxIds + 1
      /\ store' = o.store
      /\ nextId' = o.nextId
      /\ UNCHANGED <<now, slotCall, inflight>>

UpdateSession(sessionId, startTime, endTime, status) ==
  \E o \in {updateSession(store, sessionId, startTime, endTime, status)} :
      /\ store' = o.store
      /\ UNCHANGED <<nextId, now, slotCall, inflight>>

UpdateSessionStatus(sessionId, status) ==
  \E o \in {updateSessionStatus(store, sessionId, status)} :
      /\ store' = o.store
      /\ UNCHANGED <<nextId, now, slotCall, inflight>>

DeleteSession(sessionId) ==
  \E o \in {deleteSession(store, sessionId)} :
      /\ store' = o.store
      /\ UNCHANGED <<nextId, now, slotCall, inflight>>

\* Date.now() moves on between calls
Tick ==
  /\ now <= LastEnd
  /\ now' = now + 1
  /\ UNCHANGED <<store, nextId, slotCall, inflight>>

Next ==
  \/ \E eventId \in EventIds, cand \in Candidates :
       CreateSession(eventId, cand)
  \/ \E eventId \in EventIds, cands \in Batches :
       CreateMultipleSessions(eventId, cands)
  \/ \E sessionId \in SessionIds,
        startTime \in Times \cup {Absent}, endTime \in Times \cup {Absent},
        status \in StatusInputs :
       UpdateSession(sessionId, startTime, endTime, status)
  \/ \E sessionId \in SessionIds, status \in StatusInputs :
       UpdateSessionStatus(sessionId, status)
  \/ \E sessionId \in SessionIds : DeleteSession(sessionId)
  \/ Tick

Spec == Init /\ [][Next]_vars

(* ------------------ the persisted status of a session ----------------- *)
\* sessions are created, moved through every persisted status and deleted
LifecycleNext ==
  \/ \E eventId \in EventIds, cand \in Candidates :
       CreateSession(eventId, cand)
  \/ \E sessionId \in SessionIds, status \in Statuses :
       UpdateSessionStatus(sessionId, status)
  \/ \E sessionId \in SessionIds : DeleteSession(sessionId)

LifecycleSpec == Init /\ [][LifecycleNext]_vars

(* ------------------- what is on now and what is next ------------------ *)
\* the clock runs from the start of the first event until every event has
\* ended, sessions are created (createSession checks no window, so also
\* after the end of the event), moved through the persisted statuses and
\* deleted, and the read queries are called in between
QuerySlots ==
  {sl \in (0..(MaxTime + 1)) \X (0..(MaxTime + 1)) : sl[1] <= sl[2]}

QueryCandidates == {Candidate("A", sl, "upcoming") : sl \in QuerySlots}

QueryInit ==
  /\ store = <<>>
  /\ nextId = 1
  /\ now = 0
  /\ slotCall = <<>>
  /\ inflight = <<>>

GetSessionsByEvent(eventId) ==
  \E o \in {getSessionsByEvent(store, eventId)} :
      /\ store' = o.store
      /\ UNCHANGED <<nextId, now, slotCall, inflight>>

GetCurrentAndUpcomingSessions(eventId) ==
  \E o \in {getCurrentAndUpcomingSessions(store, now, eventId)} :
      /\ store' = o.store
      /\ UNCHANGED <<nextId, now, slotCall, inflight>>

GetCurrentSession(eventId) ==
  \E o \in {getCurrentSession(store, now, eventId)} :
      /\ store' = o.store
      /\ UNCHANGED <<nextId, now, slotCall, inflight>>

GetNextUpcomingSession(eventId) ==
  \E o \in {getNextUpcomingSession(store, now, eventId)} :
      /\ store' = o.store
      /\ UNCHANGED <<nextId, now, slotCall, inflight>>

QueryNext ==
  \/ \E eventId \in EventIds, cand \in QueryCandidates :
       CreateSession(eventId, cand)
  \/ \E sessionId \in SessionIds, status \in Statuses :
       UpdateSession(sessionId, Absent, Absent, status)
  \/ \E sessionId \in SessionIds, status \in Statuses :
       UpdateSessionStatus(sessionId, status)
  \/ \E sessionId \in SessionIds : DeleteSession(sessionId)
  \/ \E eventId \in EventIds : GetSessionsByEvent(eventId)
  \/ \E eventId \in EventIds : GetCurrentAndUpcomingSessions(eventId)
  \/ \E eventId \in EventIds : GetCurrentSession(eventId)
  \/ \E eventId \in EventIds : GetNextUpcomingSession(eventId)
  \/ Tick

QuerySpec == QueryInit /\ [][QueryNext]_vars

(* ------------------ findNextAvailableSlot on its own ------------------ *)
\* a TimeSlot as findNextAvailableSlot reads it: startTime and endTime (the
\* title goes into no decision and no suggestion)
TimeSlots ==
  {sl \in [startTime : Times, endTime : Times] : sl.startTime <= sl.endTime}

\* the existing sessions of a call: any order, overlapping or not
ExistingLists == UNION {[1..n -> TimeSlots] : n \in 0..MaxExisting}

\* the conflicting session is one of the existing sessions; on an empty list
\* it is any slot
ConflictingIn(existingSessions) ==
  IF existingSessions = <<>> THEN TimeSlots
  ELSE {existingSessions[i] : i \in 1..Len(existingSessions)}

SlotInit ==
  /\ store = <<>>
  /\ nextId = 1
  /\ now = FirstEnd
  /\ inflight = <<>>
  /\ \E ex \in ExistingLists, d \in 0..MaxSlotDur,
        e \in {MaxTime - 1, MaxTime} :
       \E c \in ConflictingIn(ex) :
         slotCall = [pc |-> "called", sessionDuration |-> d,
                     existingSessions |-> ex, eventEndsAt |-> e,
                     conflictingSession |-> c, arrayAfter |-> ex,
                     returned |-> NoSuggestion]

\* the call runs to its return statement
FindNextAvailableSlot ==
  /\ slotCall.pc = "called"
  /\ slotCall' =
       [slotCall EXCEPT
          !.pc = "returned",
          !.returned = findNextAvailableSlot(slotCall.sessionDuration,
                                             slotCall.existingSessions,
                                             slotCall.eventEndsAt,
                                             slotCall.conflictingSession),
          !.arrayAfter = existingSessionsAfterSort(slotCall.existingSessions)]
  /\ UNCHANGED <<store, nextId, now, inflight>>

SlotNext == FindNextAvailableSlot

SlotSpec == SlotInit /\ [][SlotNext]_vars

(* ------------- creation calls whose steps are interleaved ------------- *)
\* The handlers as their code reads: the query (and the validation on what
\* it returned) comes first, the inserts come later, and the handler itself
\* neither re-validates nor locks in between. RaceSpec runs two calls with
\* these two steps interleaved freely, as they are when nothing around the
\* handler serialises them; Spec runs every call as one step.
Callers == {"c1", "c2"}

Idle ==
  [pc |-> "idle", eventId |-> "", cands |-> <<>>, snapshot |-> <<>>,
   created |-> <<>>]

\* a call that passed validation waits for its inserts with what it read
Validated(eventId, cands) ==
  [pc |-> "validated", eventId |-> eventId, cands |-> cands,
   snapshot |-> SessionsOfEvent(store, eventId), created |-> <<>>]

RaceCandidates == {c \in Candidates : c.title = "A"}

RaceBatches == {b \in Batches : Len(b) < MaxBatch}

RaceInit ==
  /\ store = <<>>
  /\ nextId = 1
  /\ now = FirstEnd
  /\ slotCall = <<>>
  /\ inflight = [p \in Callers |-> Idle]

\* createSession up to its insert: a call that throws leaves nothing behind
ReadAndValidate(p, eventId, cand) ==
  /\ inflight[p].pc = "idle"
  /\ inflight' =
       IF ValidateSingle(store, now, eventId, cand).kind = "ok"
         THEN [inflight EXCEPT ![p] = Validated(eventId, <<cand>>)]
       ELSE inflight
  /\ UNCHANGED <<store, nextId, now, slotCall>>

\* createMultipleSessions up to its first insert
ReadAndValidateBatch(p, eventId, cands) ==
  /\ inflight[p].pc = "idle"
  /\ inflight' =
       IF ValidateBatch(store, now, eventId, cands).kind = "ok"
         THEN [inflight EXCEPT ![p] = Validated(eventId, cands)]
       ELSE inflight
  /\ UNCHANGED <<store, nextId, now, slotCall>>

\* the inserts of a call that passed validation, on the table as it is now
Insert(p) ==
  /\ inflight[p].pc = "validated"
  /\ store' = store \o Inserted(inflight[p].eventId, inflight[p].cands,
                                 nextId)
  /\ nextId' = nextId + Len(inflight[p].cands)
  /\ inflight' =
       [inflight EXCEPT
          ![p].pc = "inserted",
          ![p].created = [i \in 1..Len(inflight[p].cands) |-> nextId + i - 1]]
  /\ UNCHANGED <<now, slotCall>>

RaceNext ==
  \/ \E p \in Callers, eventId \in EventIds, cand \in RaceCandidates :
       ReadAndValidate(p, eventId, cand)
  \/ \E p \in Callers, eventId \in EventIds, cands \in RaceBatches :
       ReadAndValidateBatch(p, eventId, cands)
  \/ \E p \in Callers : Insert(p)

RaceSpec == RaceInit /\ [][RaceNext]_vars

(* ======================== claims C1 .. C10 ============================ *)
\* the strict-overlap predicate as the specification states it
StrictOverlap(a, b) ==
  a.startTime < b.endTime /\ a.endTime > b.startTime

PairwiseDisjoint(st) ==
  \A i, j \in 1..Len(st) :
    (i # j /\ st[i].eventId = st[j].eventId) => ~StrictOverlap(st[i], st[j])

LiveEvents == {e \in DOMAIN events : now <= events[e].endsAt}

WellFormed(c, e) ==
  /\ c.startTime < c.endTime
  /\ events[e].startsAt <= c.startTime
  /\ c.endTime <= events[e].endsAt

Clashes(c, st, e) ==
  {i \in 1..Len(st) : st[i].eventId = e /\ StrictOverlap(c, st[i])}

\* C1: in every reachable state of the session store, any two distinct stored
\* sessions of the same event do not strictly overlap, whatever sequence of
\* createSession, createMultipleSessions, updateSession, updateSessionStatus
\* and deleteSession calls led there.
C1_NoOverlapOverAllOperations == PairwiseDisjoint(store)

\* C2: from a store whose sessions are pairwise non-overlapping per event,
\* every createSession, createMultipleSessions, deleteSession and
\* updateSessionStatus call leaves a store that is pairwise non-overlapping;
\* an accepted candidate overlaps no stored session of the event and no other
\* candidate of its batch.
C2_CreationPreservesNoOverlap ==
  PairwiseDisjoint(store) =>
    /\ \A e \in EventIds, c \in Candidates :
         LET o == createSession(store, nextId, now, e, c)
         IN  /\ PairwiseDisjoint(o.store)
             /\ o.kind = "ok" => Clashes(c, store, e) = {}
    /\ \A e \in EventIds, cands \in Batches :
         LET o == createMultipleSessions(store, nextId, now, e, cands)
         IN  /\ PairwiseDisjoint(o.store)
             /\ o.kind = "ok" =>
                  \A i \in 1..Len(cands) :
                    /\ Clashes(cands[i], store, e) = {}
                    /\ \A j \in 1..Len(cands) :
                         i # j => ~StrictOverlap(cands[i], cands[j])
    /\ \A id \in SessionIds :
         /\ PairwiseDisjoint(deleteSession(store, id).store)
         /\ \A status \in StatusInputs :
              PairwiseDisjoint(updateSessionStatus(store, id, status).store)

\* two sessions of one event stored side by side, and a further candidate
\* for that event that is turned down
C2_Witness ==
  /\ Len(store) = 2
  /\ store[1].eventId = store[2].eventId
  /\ store[1].endTime = store[2].startTime
  /\ store[1].startTime < store[1].endTime
  /\ store[2].startTime < store[2].endTime
  /\ \E c \in Candidates :
       createSession(store, nextId, now, store[1].eventId, c).kind
         = "OverlapWithExisting"

\* C3: a createMultipleSessions call with N candidates adds no session when
\* it fails (whatever the error) and exactly N sessions when it succeeds, one
\* per candidate, in input order, all of the given event; the sessions
\* already stored are left as they were.
BatchErrors ==
  {"EventNotFound", "EventAlreadyEnded", "EmptyBatch", "InvalidRange",
   "BeforeEventStart", "AfterEventEnd", "OverlapWithExisting",
   "OverlapWithinBatch"}

C3_BatchAllOrNothing ==
  \A e \in EventIds, cands \in Batches :
    LET o == createMultipleSessions(store, nextId, now, e, cands)
        n == Len(store)
    IN  \/ /\ o.kind \in BatchErrors
           /\ o.store = store
           /\ o.created = <<>>
        \/ /\ o.kind = "ok"
           /\ Len(o.store) = n + Len(cands)
           /\ SubSeq(o.store, 1, n) = store
           /\ Len(o.created) = Len(cands)
           /\ \A i \in 1..Len(cands) :
                /\ o.store[n + i].id = o.created[i]
                /\ o.store[n + i].id \notin Ids(store)
                /\ o.store[n + i].eventId = e
                /\ o.store[n + i].startTime = cands[i].startTime
                /\ o.store[n + i].endTime = cands[i].endTime
                /\ o.store[n + i].status = cands[i].status

\* a stored session, and a batch whose first candidate is fine while a later
\* one runs into that session: nothing of the batch may be kept
C3_Witness ==
  /\ store # <<>>
  /\ \E e \in LiveEvents, cands \in Batches :
       /\ Len(cands) >= 2
       /\ WellFormed(cands[1], e)
       /\ Clashes(cands[1], store, e) = {}
       /\ createMultipleSessions(store, nextId, now, e, cands).kind
            = "OverlapWithExisting"

\* C4: no stored session has startTime >= endTime, after any sequence of
\* createSession, createMultipleSessions and updateSession calls (a candidate
\* with startTime >= endTime is rejected as InvalidRange on both paths).
C4_StoredRangesValid ==
  \A i \in 1..Len(store) : store[i].startTime < store[i].endTime

\* C5: every stored session lies inside the window of its event: a candidate
\* that starts before event.startsAt or ends after event.endsAt is rejected
\* on both creation paths and the store stays as it was.
C5_StoredInsideEventWindow ==
  \A i \in 1..Len(store) :
    /\ events[store[i].eventId].startsAt <= store[i].startTime
    /\ store[i].endTime <= events[store[i].eventId].endsAt

\* what the validator reports for one candidate when the checks run in the
\* order given: each check is named by its error kind
Breaks(check, c, e, st) ==
  CASE check = "InvalidRange" -> c.startTime >= c.endTime
    [] check = "BeforeEventStart" -> c.startTime < events[e].startsAt
    [] check = "AfterEventEnd" -> c.endTime > events[e].endsAt
    [] check = "OverlapWithExisting" -> Clashes(c, st, e) # {}

FirstBroken(order, c, e, st) ==
  LET bad == {k \in 1..Len(order) : Breaks(order[k], c, e, st)}
  IN  IF bad = {} THEN "ok"
      ELSE order[CHOOSE k \in bad : \A m \in bad : k <= m]

ReportsInOrder(order) ==
  \A e \in LiveEvents, cands \in Batches :
    Len(cands) = 1 =>
      createMultipleSessions(store, nextId, now, e, cands).kind
        = FirstBroken(order, cands[1], e, store)

\* C6 as stated: a candidate failing several checks at once is reported with
\* the first failing one in the order InvalidRange, BeforeEventStart,
\* AfterEventEnd, overlap with an existing session.
C6_OrderAsStated ==
  ReportsInOrder(<<"InvalidRange", "BeforeEventStart", "AfterEventEnd",
                   "OverlapWithExisting">>)

\* C6 amended: createMultipleSessions reports the first failing check in the
\* order BeforeEventStart, AfterEventEnd, InvalidRange, overlap with an
\* existing session.
C6_OrderOfTheCode ==
  ReportsInOrder(<<"BeforeEventStart", "AfterEventEnd", "InvalidRange",
                   "OverlapWithExisting">>)

\* candidates that break two checks at once, among them one that also runs
\* into a stored session
C6_Witness ==
  /\ \E e \in LiveEvents, cands \in Batches :
       /\ Len(cands) = 1
       /\ Breaks("InvalidRange", cands[1], e, store)
       /\ Breaks("BeforeEventStart", cands[1], e, store)
  /\ \E e \in LiveEvents, cands \in Batches :
       /\ Len(cands) = 1
       /\ Breaks("AfterEventEnd", cands[1], e, store)
       /\ Breaks("OverlapWithExisting", cands[1], e, store)

\* C7: for a live event and a candidate with startTime < endTime inside the
\* event window, createSession succeeds and stores the candidate exactly when
\* no stored session of the event strictly overlaps it; otherwise it fails
\* with an overlap conflict and the store is unchanged.
C7_AcceptedIffNoStrictOverlap ==
  \A e \in LiveEvents, c \in Candidates :
    WellFormed(c, e) =>
      LET o == createSession(store, nextId, now, e, c)
      IN  IF Clashes(c, store, e) = {}
            THEN /\ o.kind = "ok"
                 /\ o.store = store \o
                      <<[id |-> nextId, eventId |-> e,
                         startTime |-> c.startTime, endTime |-> c.endTime,
                         status |-> c.status]>>
          ELSE /\ o.kind = "OverlapWithExisting"
               /\ o.store = store

\* a live event with a stored session, a free slot and a taken one, while
\* another event holds a session at the free slot
C7_Witness ==
  \E e \in LiveEvents, c, d \in Candidates :
    /\ WellFormed(c, e) /\ WellFormed(d, e)
    /\ Clashes(c, store, e) = {}
    /\ Clashes(d, store, e) # {}
    /\ \E i \in 1..Len(store) :
         store[i].eventId # e /\ StrictOverlap(c, store[i])

\* C8: a well-formed candidate that touches a stored session (its startTime is
\* the session's endTime, or its endTime the session's startTime) is not in
\* conflict with it and is accepted when nothing else overlaps; a candidate
\* with startTime = existing.endTime - 1 and endTime > existing.startTime is
\* rejected. On the single path and on the batch path alike.
C8_BoundaryTolerance ==
  \A e \in LiveEvents, c \in Candidates, i \in 1..Len(store) :
    (WellFormed(c, e) /\ store[i].eventId = e) =>
      LET x == store[i]
          single == createSession(store, nextId, now, e, c)
          batch == createMultipleSessions(store, nextId, now, e, <<c>>)
          touches == c.startTime = x.endTime \/ c.endTime = x.startTime
      IN  /\ touches =>
               /\ single.blocking # x.id
               /\ batch.blocking # x.id
               /\ Clashes(c, store, e) \subseteq {i} =>
                    single.kind = "ok" /\ batch.kind = "ok"
          /\ (c.startTime = x.endTime - 1 /\ c.endTime > x.startTime) =>
               /\ single.kind = "OverlapWithExisting"
               /\ batch.kind = "OverlapWithExisting"

\* a stored session with a candidate starting right at its end, which is
\* accepted, and one starting a tick before its end, which is not
C8_Witness ==
  \E e \in LiveEvents, i \in 1..Len(store), c, b \in Candidates :
    /\ store[i].eventId = e
    /\ store[i].startTime < store[i].endTime
    /\ WellFormed(c, e) /\ WellFormed(b, e)
    /\ c.startTime = store[i].endTime
    /\ b.startTime = store[i].endTime - 1 /\ b.endTime > store[i].startTime
    /\ createSession(store, nextId, now, e, c).kind = "ok"
    /\ createSession(store, nextId, now, e, b).blocking = store[i].id

\* the sessions of an event in the order the repository supplies them
Supplied(e) == SelectSeq(store, LAMBDA s : s.eventId = e)

\* C9: when a candidate strictly overlaps several stored sessions, the
\* conflict names the first overlapping session in the order the repository
\* supplies them, whatever its start time, and the suggestion is computed
\* from that session. On the single path and on the batch path alike.
C9_BlockingIsFirstInSuppliedOrder ==
  \A e \in LiveEvents, c \in Candidates :
    LET ex == Supplied(e)
        single == createSession(store, nextId, now, e, c)
        batch == createMultipleSessions(store, nextId, now, e, <<c>>)
        Names(o) ==
          \E k \in 1..Len(ex) :
            /\ StrictOverlap(c, ex[k])
            /\ \A m \in 1..(k - 1) : ~StrictOverlap(c, ex[m])
            /\ o.blocking = ex[k].id
            /\ o.title = c.title
            /\ o.suggestion =
                 findNextAvailableSlot(c.endTime - c.startTime, ex,
                                       events[e].endsAt, ex[k])
    IN  /\ single.kind = "OverlapWithExisting" => Names(single)
        /\ batch.kind = "OverlapWithExisting" => Names(batch)

\* a candidate overlapping two stored sessions of which the one supplied
\* first starts later than the other
C9_Witness ==
  \E e \in LiveEvents, c \in Candidates :
    LET ex == Supplied(e)
    IN  /\ Len(ex) = 2
        /\ WellFormed(c, e)
        /\ StrictOverlap(c, ex[1]) /\ StrictOverlap(c, ex[2])
        /\ ex[2].startTime < ex[1].startTime
        /\ createSession(store, nextId, now, e, c).blocking = ex[1].id
        /\ createMultipleSessions(store, nextId, now, e,
                                  <<c>>).blocking = ex[1].id

\* C10: createMultipleSessions validates every candidate against the stored
\* sessions before it compares any two candidates: when some candidate fails
\* against the store, the error is that of the first such candidate even if
\* earlier candidates overlap one another; for candidates i < j overlapping
\* each other and a later k overlapping a stored session it is the
\* overlap-with-existing conflict for k, with a suggestion.
FailsAlone(c, e) ==
  \/ c.startTime >= c.endTime
  \/ c.startTime < events[e].startsAt
  \/ c.endTime > events[e].endsAt
  \/ Clashes(c, store, e) # {}

C10_StoreChecksBeforePairChecks ==
  \A e \in LiveEvents, cands \in Batches :
    LET o == createMultipleSessions(store, nextId, now, e, cands)
        failing == {k \in 1..Len(cands) : FailsAlone(cands[k], e)}
        first == CHOOSE k \in failing : \A m \in failing : k <= m
    IN  /\ o.kind = "OverlapWithinBatch" => failing = {}
        /\ failing # {} =>
             /\ o.kind # "OverlapWithinBatch"
             /\ o.title = cands[first].title
             /\ (WellFormed(cands[first], e) =>
                   /\ o.kind = "OverlapWithExisting"
                   /\ o.blocking \in Ids(store)
                   /\ o.suggestion # NoSuggestion)

\* candidates 1 and 2 overlap each other and pass against the store, while
\* candidate 3 runs into a stored session
C10_Witness ==
  \E e \in LiveEvents, cands \in Batches :
    /\ Len(cands) = 3
    /\ StrictOverlap(cands[1], cands[2])
    /\ ~FailsAlone(cands[1], e) /\ ~FailsAlone(cands[2], e)
    /\ WellFormed(cands[3], e)
    /\ Clashes(cands[3], store, e) # {}
    /\ createMultipleSessions(store, nextId, now, e, cands).title
         = BatchTitle(3)

(* ======================== claims C11 .. C20 =========================== *)
\* C11: when every candidate of a batch passes the checks against the store,
\* createMultipleSessions compares the pairs (i, j), i < j, in lexicographic
\* order with the strict-overlap predicate: it fails on the first overlapping
\* pair with a conflict naming both titles and carrying no suggestion, adds
\* nothing, and succeeds only if no pair overlaps.
C11_FirstViolatingPair ==
  \A e \in LiveEvents, cands \in Batches :
    (Len(cands) > 0 /\ \A k \in 1..Len(cands) : ~FailsAlone(cands[k], e)) =>
      LET o == createMultipleSessions(store, nextId, now, e, cands)
          pairs == {p \in (1..Len(cands)) \X (1..Len(cands)) :
                      p[1] < p[2] /\ StrictOverlap(cands[p[1]], cands[p[2]])}
          Before(p, q) == p[1] < q[1] \/ (p[1] = q[1] /\ p[2] <= q[2])
      IN  IF pairs = {} THEN o.kind = "ok"
          ELSE \E p \in pairs :
                 /\ \A q \in pairs : Before(p, q)
                 /\ o.kind = "OverlapWithinBatch"
                 /\ o.title = cands[p[1]].title
                 /\ o.other = cands[p[2]].title
                 /\ o.suggestion = NoSuggestion
                 /\ o.store = store

\* a stored session, and a batch of three candidates that pass against it
\* and all overlap one another: the conflict names the first two
C11_Witness ==
  /\ store # <<>>
  /\ \E e \in LiveEvents, cands \in Batches :
       /\ Len(cands) = 3
       /\ \A k \in 1..3 : ~FailsAlone(cands[k], e)
       /\ StrictOverlap(cands[1], cands[2])
       /\ StrictOverlap(cands[2], cands[3])
       /\ createMultipleSessions(store, nextId, now, e, cands).title
            = BatchTitle(1)
       /\ createMultipleSessions(store, nextId, now, e, cands).other
            = BatchTitle(2)

\* C12: createMultipleSessions with no candidate, for an event that exists
\* and has not ended, fails with EmptyBatch and inserts nothing; it never
\* returns an empty list of created sessions.
C12_EmptyBatchRejected ==
  \A e \in LiveEvents :
    LET o == createMultipleSessions(store, nextId, now, e, <<>>)
    IN  /\ o.kind = "EmptyBatch"
        /\ o.store = store
        /\ o.nextId = nextId
        /\ o.created = <<>>

\* an event that still takes sessions and holds one, asked for an empty batch
C12_Witness ==
  \E e \in LiveEvents :
    /\ Supplied(e) # <<>>
    /\ createMultipleSessions(store, nextId, now, e, <<>>).kind = "EmptyBatch"

\* the call of findNextAvailableSlot under way, and its pieces as the
\* specification names them
Returned == slotCall.pc = "returned"

Existing == slotCall.existingSessions

Blocking == slotCall.conflictingSession

Duration == slotCall.sessionDuration

EventEnd == slotCall.eventEndsAt

\* position of the k-th existing session once the sessions are put in
\* ascending order of startTime, ties in the order supplied
Rank(k) ==
  1 + Cardinality({m \in 1..Len(Existing) :
                     \/ Existing[m].startTime < Existing[k].startTime
                     \/ /\ Existing[m].startTime = Existing[k].startTime
                        /\ m < k})

ByStart ==
  [r \in 1..Len(Existing) |->
     Existing[CHOOSE k \in 1..Len(Existing) : Rank(k) = r]]

\* the slot right after the blocking session ends by eventEnd and is
\* overlapped by no session that starts at another time than the blocking one
AfterAccepted ==
  /\ Blocking.endTime + Duration <= EventEnd
  /\ \A i \in 1..Len(Existing) :
       Existing[i].startTime # Blocking.startTime =>
         ~(/\ Existing[i].startTime < Blocking.endTime + Duration
           /\ Existing[i].endTime > Blocking.endTime)

\* the consecutive pairs of ByStart that leave room for the duration
FittingGaps ==
  {i \in 1..(Len(Existing) - 1) :
     ByStart[i + 1].startTime - ByStart[i].endTime >= Duration}

FirstFittingGap == CHOOSE i \in FittingGaps : \A k \in FittingGaps : i <= k

TailFits ==
  /\ Existing # <<>>
  /\ ByStart[Len(Existing)].endTime + Duration <= EventEnd

\* C13: findNextAvailableSlot returns "start at blocking.endTime" exactly when
\* blocking.endTime + duration <= eventEnd and no existing session with a
\* startTime other than the blocking session's strictly overlaps that slot;
\* sessions that share the blocking session's startTime are left out of the
\* test, and the answer is given whatever the gap scan or the tail probe
\* would find.
C13_ImmediatelyAfterProbe ==
  Returned =>
    /\ slotCall.returned.branch = "after" <=> AfterAccepted
    /\ slotCall.returned.branch = "after" =>
         /\ slotCall.returned.from = formatTimeForError(Blocking.endTime)
         /\ slotCall.returned.to = <<>>
         /\ slotCall.returned.booked = <<>>

\* the slot after the blocking session is suggested although another session
\* with the same startTime overlaps it and although a gap would fit as well
C13_Witness ==
  /\ Returned
  /\ slotCall.returned.branch = "after"
  /\ Duration > 0
  /\ FittingGaps # {}
  /\ \E i \in 1..Len(Existing) :
       /\ Existing[i] # Blocking
       /\ Existing[i].startTime = Blocking.startTime
       /\ Existing[i].startTime < Blocking.endTime + Duration
       /\ Existing[i].endTime > Blocking.endTime

\* C14: when the immediately-after probe is not accepted, the consecutive
\* pairs of the sessions sorted by startTime are walked from the lowest index
\* and the first gap of at least the duration gives the suggestion
\* [gapStart, gapStart + duration]; no gap is suggested when every gap is
\* smaller than the duration, nor when the probe was accepted.
C14_GapScanFirstFit ==
  Returned =>
    /\ slotCall.returned.branch = "gap" => ~AfterAccepted
    /\ ~AfterAccepted =>
         IF FittingGaps # {}
           THEN /\ slotCall.returned.branch = "gap"
                /\ slotCall.returned.from =
                     formatTimeForError(ByStart[FirstFittingGap].endTime)
                /\ slotCall.returned.to =
                     formatTimeForError(ByStart[FirstFittingGap].endTime
                                          + Duration)
         ELSE slotCall.returned.branch # "gap"

\* four sessions supplied out of order: the first gap is too small, the
\* second and the third fit, and the second is the one suggested
C14_Witness ==
  /\ Returned
  /\ slotCall.returned.branch = "gap"
  /\ Len(Existing) = 4
  /\ Existing # ByStart
  /\ Duration > 0
  /\ FittingGaps = {2, 3}
  /\ slotCall.returned.from = formatTimeForError(ByStart[2].endTime)

\* C15: when neither the probe nor the gap scan yields a slot, the suggestion
\* is "start at last.endTime", last being the session with the greatest
\* startTime, exactly when last.endTime + duration <= eventEnd.
C15_TailProbe ==
  Returned =>
    /\ slotCall.returned.branch = "tail" =>
         ~AfterAccepted /\ FittingGaps = {}
    /\ (~AfterAccepted /\ FittingGaps = {}) =>
         /\ slotCall.returned.branch = "tail" <=> TailFits
         /\ slotCall.returned.branch = "tail" =>
              /\ slotCall.returned.from =
                   formatTimeForError(ByStart[Len(Existing)].endTime)
              /\ slotCall.returned.to = <<>>

\* the probe is blocked by a later session, the only gap is too small, the
\* slot after the last session fits; the last session was supplied first
C15_Witness ==
  /\ Returned
  /\ slotCall.returned.branch = "tail"
  /\ Len(Existing) = 2
  /\ Existing[1].startTime > Existing[2].startTime
  /\ Blocking = Existing[2]
  /\ Blocking.endTime + Duration <= EventEnd
  /\ Existing[1].startTime - Existing[2].endTime < Duration
  /\ Existing[1].endTime # Existing[2].endTime
  /\ slotCall.returned.from = formatTimeForError(Existing[1].endTime)

\* C16: when the probe, the gap scan and the tail probe all fail, the
\* min(3, n) sessions with the smallest startTime are reported as already
\* booked, in ascending order of startTime, and the generic message is
\* returned exactly when there is no existing session.
C16_Fallback ==
  Returned =>
    LET n == Len(Existing)
        allFail == ~AfterAccepted /\ FittingGaps = {} /\ ~TailFits
    IN  /\ slotCall.returned.branch \in {"booked", "generic"} <=> allFail
        /\ allFail =>
             /\ slotCall.returned.branch = "generic" <=> n = 0
             /\ Len(slotCall.returned.booked) = IF n < 3 THEN n ELSE 3
             /\ \A i \in 1..Len(slotCall.returned.booked) :
                  slotCall.returned.booked[i] =
                    <<formatTimeForError(ByStart[i].startTime),
                      formatTimeForError(ByStart[i].endTime)>>

\* four sessions supplied out of order and nothing fits: the three earliest
\* are listed, the fourth is not
C16_Witness ==
  /\ Returned
  /\ slotCall.returned.branch = "booked"
  /\ Len(Existing) = 4
  /\ Existing # ByStart
  /\ Len(slotCall.returned.booked) = 3
  /\ ByStart[4].startTime > ByStart[3].startTime

\* C17: for every duration, every list of existing sessions (empty, out of
\* order, overlapping), every eventEnd and every blocking session,
\* findNextAvailableSlot returns, with exactly one of its five outcomes, and
\* leaves the list it was given as it was.
C17_Totality ==
  /\ slotCall.pc = "called" =>
       findNextAvailableSlot(Duration, Existing, EventEnd, Blocking).branch
         \in {"after", "gap", "tail", "booked", "generic"}
  /\ Returned =>
       /\ slotCall.arrayAfter = Existing
       /\ LET r == slotCall.returned
          IN  \/ /\ r.branch \in {"after", "tail"}
                 /\ r.from # <<>> /\ r.to = <<>> /\ r.booked = <<>>
              \/ /\ r.branch = "gap"
                 /\ r.from # <<>> /\ r.to # <<>> /\ r.booked = <<>>
              \/ /\ r.branch = "booked"
                 /\ r.from = <<>> /\ r.to = <<>> /\ r.booked # <<>>
              \/ /\ r.branch = "generic"
                 /\ r.from = <<>> /\ r.to = <<>> /\ r.booked = <<>>

\* a call that has returned on four sessions given out of order, two of
\* which overlap
C17_Witness ==
  /\ Returned
  /\ Len(Existing) = 4
  /\ Existing # ByStart
  /\ slotCall.arrayAfter = Existing
  /\ \E i, j \in 1..4 : i # j /\ StrictOverlap(Existing[i], Existing[j])

\* the times at which a validation may run
Clocks == 0..(MaxTime + 1)

\* a second validation run with the same candidate, the same sequence of
\* existing sessions and the same event, at time t and with nothing else in
\* the table, ends as the run in the present state does
SameOutcome(e, c, t) ==
  /\ ValidateSingle(Supplied(e), t, e, c)
       = ValidateSingle(store, now, e, c)
  /\ ValidateBatch(Supplied(e), t, e, <<c>>)
       = ValidateBatch(store, now, e, <<c>>)

\* C18 as stated: two validation runs with the same candidate, the same
\* existing sessions and the same event bounds end alike (decision, error
\* kind, blocking session, suggestion), whatever the current time and
\* whatever was called before.
C18_NoHiddenState ==
  \A e \in DOMAIN events, c \in Candidates, t \in Clocks :
    SameOutcome(e, c, t)

\* C18 amended: the two runs end alike provided the current time lies on the
\* same side of event.endsAt in both (past it, a run fails with
\* EventAlreadyEnded); nothing else of the state goes into the outcome.
C18_DeterminedUpToEventEnd ==
  \A e \in DOMAIN events, c \in Candidates, t \in Clocks :
    ((t > events[e].endsAt) <=> (now > events[e].endsAt)) =>
      SameOutcome(e, c, t)

\* a candidate in conflict with a session of its event while the table also
\* holds a session of another event that it overlaps
C18_Witness ==
  \E e \in LiveEvents, c \in Candidates :
    /\ ValidateSingle(store, now, e, c).kind = "OverlapWithExisting"
    /\ \E i \in 1..Len(store) :
         store[i].eventId # e /\ StrictOverlap(c, store[i])
    /\ \E t \in Clocks : t < now
    /\ \E t \in Clocks : t > events[e].endsAt

\* the calls that got past validation, and the sessions a call inserted
Accepted == {p \in Callers : inflight[p].pc \in {"validated", "inserted"}}

CreatedBy(p) == {inflight[p].created[i] : i \in 1..Len(inflight[p].created)}

\* what the table of the event would hold had the call run alone, in one
\* step, against the sessions it read
RunAlone(p) ==
  inflight[p].snapshot
    \o Inserted(inflight[p].eventId, inflight[p].cands, nextId)

\* C19: when validation and insert are two steps and two creation calls for
\* one event both read the existing sessions before either inserts, a table
\* with two strictly overlapping sessions of that event is reachable, although
\* each call, run alone against what it read, is accepted and creates no
\* overlap. Stated as an invariant of the interleaved handlers: every call
\* that passed validation leaves what it read free of overlap when run alone,
\* and two stored sessions of one event overlap only if they were inserted by
\* two calls neither of which had read the other's session; the witness is
\* the overlapping table.
C19_OverlapOnlyByStaleRead ==
  /\ \A p \in Accepted :
       /\ \A i \in 1..Len(inflight[p].cands) :
            \A k \in 1..Len(inflight[p].snapshot) :
              ~StrictOverlap(inflight[p].cands[i], inflight[p].snapshot[k])
       /\ PairwiseDisjoint(inflight[p].snapshot) =>
            PairwiseDisjoint(RunAlone(p))
  /\ \A i, j \in 1..Len(store) :
       (/\ i # j
        /\ store[i].eventId = store[j].eventId
        /\ StrictOverlap(store[i], store[j])) =>
         \E p, q \in Callers :
           /\ p # q
           /\ store[i].id \in CreatedBy(p)
           /\ store[j].id \in CreatedBy(q)
           /\ store[j].id \notin Ids(inflight[p].snapshot)
           /\ store[i].id \notin Ids(inflight[q].snapshot)

\* both calls read the same sessions of the same event, both passed, both
\* inserted, and the table now holds two well-formed sessions that overlap
C19_Witness ==
  /\ \A p \in Callers : inflight[p].pc = "inserted"
  /\ inflight["c1"].eventId = inflight["c2"].eventId
  /\ inflight["c1"].snapshot = inflight["c2"].snapshot
  /\ \A p \in Callers :
       /\ PairwiseDisjoint(RunAlone(p))
       /\ \A i \in 1..Len(inflight[p].cands) :
            WellFormed(inflight[p].cands[i], inflight[p].eventId)
  /\ ~PairwiseDisjoint(store)

\* C20: for a stored session in any persisted status and any target status
\* of the five (the same one, or one after completed or cancelled, included),
\* updateSessionStatus succeeds and the session's persisted status becomes
\* the target; nothing else of the table changes and no status is final.
C20_AnyStatusToAnyStatus ==
  \A i \in 1..Len(store), t \in Statuses :
    LET o == updateSessionStatus(store, store[i].id, t)
    IN  /\ store[i].status \in Statuses
        /\ o.kind = "ok"
        /\ o.store = [store EXCEPT ![i].status = t]

\* a completed session and a cancelled one, both created as upcoming; the
\* completed one can be moved back to upcoming
C20_Witness ==
  \E i, j \in 1..Len(store) :
    /\ store[i].status = "completed"
    /\ store[j].status = "cancelled"
    /\ updateSessionStatus(store, store[i].id, "upcoming").store[i].status
         = "upcoming"

(* ============================ claims C21..C29 ========================== *)

\* the sessions whose persisted status differs between the two states of a step
StatusChanged ==
  \E i \in 1..Len(store), j \in 1..Len(store') :
      store[i].id = store'[j].id /\ store[i].status # store'[j].status

\* the step is one explicit update call, made at the instant of the step
ExplicitUpdate ==
  /\ now' = now
  /\ \/ \E sessionId \in SessionIds, status \in Statuses :
           store' = updateSessionStatus(store, sessionId, status).store
     \/ \E sessionId \in SessionIds, status \in Statuses :
           \E startTime \in Times \cup {Absent}, endTime \in Times \cup {Absent} :
              store' = updateSession(store, sessionId, startTime, endTime, status).store

\* the four read queries leave the store as it is
QueriesWriteNothing ==
  \A e \in EventIds :
      /\ getSessionsByEvent(store, e).store = store
      /\ getCurrentSession(store, now, e).store = store
      /\ getNextUpcomingSession(store, now, e).store = store
      /\ getCurrentAndUpcomingSessions(store, now, e).store = store

\* updateSessionStatus replaces the status of its target and nothing else
StatusUpdateTouchesStatusOnly ==
  \A sessionId \in Ids(store), status \in Statuses :
      LET o == updateSessionStatus(store, sessionId, status)
      IN  /\ Len(o.store) = Len(store)
          /\ \A i \in 1..Len(store) :
                o.store[i] = IF store[i].id = sessionId
                               THEN [store[i] EXCEPT !.status = status]
                             ELSE store[i]

\* C21: the persisted status is never derived or stored implicitly. A step
\* changes the persisted status of a session only if it is one explicit
\* update call (updateSessionStatus, or updateSession with its status
\* argument); a step in which time passes changes no stored field; the read
\* queries getSessionsByEvent, getCurrentSession, getNextUpcomingSession and
\* getCurrentAndUpcomingSessions change no stored field; and
\* updateSessionStatus changes the status field of the targeted session and
\* nothing else in the store.
C21_StatusOnlyByExplicitUpdate ==
  /\ [](QueriesWriteNothing /\ StatusUpdateTouchesStatusOnly)
  /\ [][/\ StatusChanged => ExplicitUpdate
        /\ now' # now => store' = store]_vars

\* a session persisted as upcoming that started in the past and is the
\* current session of its event
C21_Witness ==
  \E e \in DOMAIN events :
      LET cur == getCurrentSession(store, now, e).result
      IN  /\ cur # null
          /\ cur[1].status = "upcoming"
          /\ cur[1].startTime < now

\* C22: the single and the batch path apply the same validator. For every
\* event, store and candidate c, createSession(c) is accepted exactly when
\* createMultipleSessions([c]) is accepted, with the same error kind on
\* rejection and the same resulting store.
C22_SinglePathEqualsBatchPath ==
  \A e \in EventIds, c \in Candidates :
      LET single == createSession(store, nextId, now, e, c)
          batch == createMultipleSessions(store, nextId, now, e, <<c>>)
      IN  /\ single.kind = batch.kind
          /\ single.store = batch.store

\* the failure a creation call for event e with n candidates runs into
\* before it looks at any candidate
EarlyFailure(e, n) ==
  IF e \notin DOMAIN events THEN "EventNotFound"
  ELSE IF now > events[e].endsAt THEN "EventAlreadyEnded"
  ELSE IF n = 0 THEN "EmptyBatch"
  ELSE "none"

EarlyFailures == {"EventNotFound", "EventAlreadyEnded", "EmptyBatch"}

\* what a creation call returned is the early failure and nothing was stored,
\* or there is no early failure and the call went on to the candidates
FailsEarlyOrChecks(o, e, n) ==
  IF EarlyFailure(e, n) # "none"
    THEN /\ o.kind = EarlyFailure(e, n)
         /\ o.store = store
         /\ o.nextId = nextId
  ELSE o.kind \notin EarlyFailures

\* C23: error precedence of creation. createSession and
\* createMultipleSessions fail with EventNotFound when the event does not
\* exist, otherwise with EventAlreadyEnded exactly when now > event.endsAt
\* (creation is still allowed at now = event.endsAt), otherwise (batch only)
\* with EmptyBatch, and only then evaluate the candidates; each of these
\* failures comes before any per-candidate check, whatever the candidates
\* are, and leaves the store unchanged.
C23_ErrorPrecedence ==
  /\ \A e \in EventIds, c \in Candidates :
        FailsEarlyOrChecks(createSession(store, nextId, now, e, c), e, 1)
  /\ \A e \in EventIds, cands \in Batches :
        FailsEarlyOrChecks(createMultipleSessions(store, nextId, now, e, cands),
                           e, Len(cands))

\* an event has ended and holds a session: a candidate overlapping that
\* session and an empty batch are both turned down as EventAlreadyEnded,
\* and both as EventNotFound for an event that does not exist
C23_Witness ==
  \E e \in DOMAIN events, c \in Candidates :
      /\ now > events[e].endsAt
      /\ Clashes(c, store, e) # {}
      /\ createSession(store, nextId, now, e, c).kind = "EventAlreadyEnded"
      /\ createMultipleSessions(store, nextId, now, e, <<>>).kind = "EventAlreadyEnded"
      /\ createSession(store, nextId, now, "e0", c).kind = "EventNotFound"
      /\ createMultipleSessions(store, nextId, now, "e0", <<>>).kind = "EventNotFound"

\* the event exists and has not ended
Open(e) == e \in DOMAIN events /\ now <= events[e].endsAt

\* the sessions of event e that are on at the instant now / start after it
Current(e) ==
  {i \in 1..Len(store) :
     /\ store[i].eventId = e
     /\ store[i].startTime <= now
     /\ now <= store[i].endTime}

Upcoming(e) ==
  {i \in 1..Len(store) : store[i].eventId = e /\ store[i].startTime > now}

\* r is null when no session of the set exists, else one of them that
\* starts latest (dir = 1) or earliest (dir = -1)
Extreme(r, among, dir) ==
  IF among = {} THEN r = null
  ELSE /\ r # null
       /\ \E i \in among : store[i] = r[1]
       /\ \A i \in among : dir * store[i].startTime <= dir * r[1].startTime

\* the ids the two queries return for event e on the table st
Answers(st, e) ==
  LET ids(r) == IF r = null THEN {} ELSE {r[1].id}
  IN  <<ids(getCurrentSession(st, now, e).result),
        ids(getNextUpcomingSession(st, now, e).result)>>

\* no session comes back from both queries, and rewriting a persisted
\* status changes neither answer
DisjointAndStatusBlind(e) ==
  /\ Answers(store, e)[1] \cap Answers(store, e)[2] = {}
  /\ \A sessionId \in Ids(store), status \in Statuses :
        Answers(updateSessionStatus(store, sessionId, status).store, e)
          = Answers(store, e)

ConsistentCall ==
  /\ \A i \in 1..Len(Existing) :
        /\ Existing[i].startTime < Existing[i].endTime
        /\ Existing[i].endTime <= EventEnd
  /\ \A i, k \in 1..Len(Existing) :
        i # k => ~StrictOverlap(Existing[i], Existing[k])
  /\ \E i \in 1..Len(Existing) : Existing[i] = Blocking

\* the start times the returned message can stand for: the message carries
\* the start as a formatted time of day
SuggestedStarts ==
  {x \in 0..(MaxTime + MaxSlotDur) :
     /\ slotCall.returned.from = formatTimeForError(x)
     /\ slotCall.returned.branch = "gap" =>
          slotCall.returned.to = formatTimeForError(x + Duration)}

\* C25: suggestions are conflict-free on a consistent store. If the existing
\* sessions all have startTime < endTime, are pairwise non-overlapping and
\* end by eventEnd, and blocking is one of them, then every concrete slot
\* suggested by findNextAvailableSlot (immediately-after, gap or tail) of
\* length duration strictly overlaps no existing session and ends at or
\* before eventEnd.
C25_SuggestionsConflictFree ==
  (Returned /\ ConsistentCall
     /\ slotCall.returned.branch \in {"after", "gap", "tail"}) =>
    /\ SuggestedStarts # {}
    /\ \A x \in SuggestedStarts :
          /\ x + Duration <= EventEnd
          /\ \A i \in 1..Len(Existing) :
                ~StrictOverlap([startTime |-> x, endTime |-> x + Duration],
                               Existing[i])

\* two disjoint sessions supplied latest first with a free hour between
\* them: the blocking session ends with the event, the gap is suggested
C25_Witness ==
  /\ Returned /\ ConsistentCall
  /\ Len(Existing) = 2
  /\ Existing[1].startTime > Existing[2].startTime
  /\ Blocking.endTime = EventEnd
  /\ Duration = 1
  /\ slotCall.returned.branch = "gap"
  /\ SuggestedStarts = {Existing[2].endTime}

\* a conflict reported by a creation call for event e names a stored session
\* of e and carries a start time or a list of booked slots
Concrete(o, e) ==
  o.kind = "OverlapWithExisting" =>
    /\ o.blocking \in Ids(Supplied(e))
    /\ o.suggestion.branch \in {"after", "gap", "tail", "booked"}
    /\ o.suggestion.branch = "booked" => o.suggestion.booked # <<>>
    /\ o.suggestion.branch # "booked" => o.suggestion.from # <<>>

\* C26: the generic "Please choose a different time slot" outcome is
\* unreachable from the creation operations. createSession and
\* createMultipleSessions call findNextAvailableSlot only with a blocking
\* session taken from the same non-empty existing-session list, so every
\* conflict error they raise carries either a concrete start time or an
\* "Already booked" list.
C26_GenericUnreachable ==
  \A e \in EventIds :
      /\ \A c \in Candidates :
            Concrete(createSession(store, nextId, now, e, c), e)
      /\ \A cands \in Batches :
            Concrete(createMultipleSessions(store, nextId, now, e, cands), e)

\* one stored session fills its event and a candidate over the same hours
\* is turned down by both paths with the list of booked slots
C26_Witness ==
  \E e \in LiveEvents, c \in Candidates :
      LET single == createSession(store, nextId, now, e, c)
          batch == createMultipleSessions(store, nextId, now, e, <<c>>)
      IN  /\ Len(Supplied(e)) = 1
          /\ single.kind = "OverlapWithExisting"
          /\ single.suggestion.branch = "booked"
          /\ batch.kind = "OverlapWithExisting"
          /\ batch.suggestion = single.suggestion

\* the table without its i-th session, the others as they were and in the
\* order they had
Without(i) == [k \in 1..(Len(store) - 1) |-> store[IF k < i THEN k ELSE k + 1]]

\* C27: deleting the blocker frees the slot. If createSession(c) is rejected
\* with blocking session X and X is the only stored session of the event
\* that strictly overlaps c, then after deleteSession(X) the same
\* createSession(c) (event still not ended) is accepted; deleteSession
\* removes exactly session X and leaves every other session unchanged.
C27_DeletingTheBlockerFreesTheSlot ==
  /\ \A e \in LiveEvents, c \in Candidates :
        LET rejected == createSession(store, nextId, now, e, c)
        IN  (/\ rejected.kind = "OverlapWithExisting"
             /\ Cardinality(Clashes(c, store, e)) = 1) =>
              LET deleted == deleteSession(store, rejected.blocking)
                  again == createSession(deleted.store, nextId, now, e, c)
              IN  /\ Clashes(c, store, e) = {i \in 1..Len(store) : store[i].id = rejected.blocking}
                  /\ deleted.kind = "ok"
                  /\ again.kind = "ok"
                  /\ Len(again.store) = Len(store)
  /\ \A i \in 1..Len(store) :
        deleteSession(store, store[i].id).store = Without(i)

\* two sessions of one event, a candidate that overlaps only the second:
\* it is turned down, and taken once the second session is deleted
C27_Witness ==
  \E e \in LiveEvents, c \in Candidates :
      /\ Len(Supplied(e)) = 2
      /\ Clashes(c, store, e) = {2}
      /\ createSession(store, nextId, now, e, c).blocking = store[2].id
      /\ createSession(deleteSession(store, store[2].id).store,
                       nextId, now, e, c).kind = "ok"

\* the call failed with "Session not found" and the table is as it was
NotFoundNoEffect(o) == o.kind = "SessionNotFound" /\ o.store = store

\* C28: unknown session ids are rejected without effect. updateSession,
\* updateSessionStatus and deleteSession called with an id that is not in
\* the store (never created, or already deleted) fail with "Session not
\* found" and leave the store unchanged; in particular a second
\* deleteSession of the same id fails.
C28_UnknownIdsRejected ==
  /\ \A sessionId \in SessionIds \ Ids(store) :
        /\ NotFoundNoEffect(deleteSession(store, sessionId))
        /\ \A status \in Statuses :
              /\ NotFoundNoEffect(updateSessionStatus(store, sessionId, status))
              /\ \A startTime \in Times \cup {Absent}, endTime \in Times \cup {Absent} :
                    NotFoundNoEffect(updateSession(store, sessionId, startTime, endTime, status))
  /\ \A sessionId \in Ids(store) :
        LET first == deleteSession(store, sessionId)
            second == deleteSession(first.store, sessionId)
        IN  /\ first.kind = "ok"
            /\ second.kind = "SessionNotFound"
            /\ second.store = first.store

\* a table that holds one session, has lost another to a delete and has one
\* id that was never given out
C28_Witness ==
  /\ nextId = MaxIds + 1
  /\ Len(store) = 1
  /\ \E sessionId \in 1..(nextId - 1) :
        /\ sessionId \notin Ids(store)
        /\ deleteSession(store, sessionId).kind = "SessionNotFound"
  /\ deleteSession(store, nextId).kind = "SessionNotFound"

\* the sessions of the events other than e, in table order
OtherEvents(st, e) == SelectSeq(st, LAMBDA s : s.eventId # e)

\* what a creation call tells its caller
Verdict(o) == <<o.kind, o.title, o.other, o.blocking, o.suggestion>>

\* the call o for event e on the table ended as the same call (alone) on the
\* sessions of e only, blames no session of another event, left the
\* sessions of the other events as they were and filed what it inserted
\* under e
Isolated(o, alone, e) ==
  /\ Verdict(o) = Verdict(alone)
  /\ o.blocking \in Ids(Supplied(e)) \cup {0}
  /\ OtherEvents(o.store, e) = OtherEvents(store, e)
  /\ \A i \in 1..Len(o.store) :
        o.store[i].id >= nextId => o.store[i].eventId = e
  /\ \A i \in 1..Len(store) : o.store[i] = store[i]

\* C29: events are isolated from each other. A candidate for event E is
\* validated only against stored sessions whose eventId is E, so sessions
\* of another event with overlapping times never cause a conflict and never
\* appear in a suggestion; and a creation call for E inserts only sessions
\* with eventId = E and leaves the sessions of every other event unchanged.
C29_EventsIsolated ==
  \A e \in EventIds :
      /\ \A c \in Candidates :
            Isolated(createSession(store, nextId, now, e, c),
                     createSession(Supplied(e), nextId, now, e, c), e)
      /\ \A cands \in Batches :
            Isolated(createMultipleSessions(store, nextId, now, e, cands),
                     createMultipleSessions(Supplied(e), nextId, now, e, cands), e)

\* each of two events holds a session; for one of them a candidate over the
\* hours of the other event's session is accepted, and a candidate in
\* conflict with its own session is pointed to the hours right after it,
\* which the other event's session overlaps
C29_Witness ==
  \E e \in LiveEvents, c \in Candidates, taken \in Candidates :
      /\ Len(store) = 2 /\ Len(Supplied(e)) = 1
      /\ WellFormed(c, e)
      /\ \E i \in 1..Len(store) :
            store[i].eventId # e /\ StrictOverlap(c, store[i])
      /\ createSession(store, nextId, now, e, c).kind = "ok"
      /\ createSession(store, nextId, now, e, taken).suggestion.branch = "after"
      /\ taken.endTime - taken.startTime = c.endTime - c.startTime
      /\ c.startTime = Supplied(e)[1].endTime

====
